---- MODULE Spec2Model ----
(***************************************************************************)
(* Model of src/src/getF.c: getEV, svdfirst and do_getF, the permutation   *)
(* loop behind permutest.cca.  Matrices are flat, column-major, 0-based    *)
(* arrays as in the C code (entry (i,j) of an nr-row matrix is i + nr*j).  *)
(* The LINPACK routine dqrsl is modelled by its algorithm on Householder   *)
(* vectors whose arithmetic is exact on integers; the LAPACK routine       *)
(* dgesdd is modelled by its interface (status and singular values).       *)
(***************************************************************************)
EXTENDS Integers, Sequences, FiniteSets, TLC

\* ------------------------------------------------------------- bounds
\* rows and columns of the response matrix E, rows of the permutation table
nr == 3
nc == 2
nperm == 2
\* number of response matrices tried
MaxSeed == 2
\* largest entry of a matrix handed to getEV on its own
MaxEVal == 4

\* ------------------------------------------------------------- constants
FIT == 1
RESID == 10

\* contents of memory that was allocated and never written
JunkVals == {0, 5}
\* status values the library routines may report
QrStatus == {0, 1}
SvdStatus == {0, 1, -4}

Min(a, b) == IF a < b THEN a ELSE b
Idx(len) == 0 .. (len - 1)

\* ------------------------------------------------------------- getEV
RECURSIVE getEVdiag(_, _, _)
getEVdiag(x, nrow, i) ==
    IF i = 0 THEN 0
    ELSE getEVdiag(x, nrow, i - 1) + x[(i - 1) * nrow + (i - 1)] * x[(i - 1) * nrow + (i - 1)]

RECURSIVE getEVall(_, _)
getEVall(x, len) ==
    IF len = 0 THEN 0
    ELSE getEVall(x, len - 1) + x[len - 1] * x[len - 1]

\* variant: both loops stop one element early
getEVShort(x, nrow, ncol, isDB) ==
    IF isDB = 1 THEN getEVdiag(x, nrow, nrow - 1)
    ELSE getEVall(x, nrow * ncol - 1)

\* switch(isDB): case 1 sums the squared diagonal, case 0 all squared entries

getEV(x, nrow, ncol, isDB) ==
    IF isDB = 1 THEN getEVdiag(x, nrow, nrow)
    ELSE getEVall(x, nrow * ncol)

\* ------------------------------------------------------------- dqrsl
\* entry i of the Householder vector of column j: the diagonal entry of x is
\* replaced by qraux[j] while the transformation is applied
HouseVec(x, ldx, qraux, j, i) == IF i = j THEN qraux[j] ELSE x[i + ldx * j]

RECURSIVE Ddot(_, _, _, _, _, _)
Ddot(x, ldx, qraux, j, v, i) ==
    IF i < j THEN 0
    ELSE Ddot(x, ldx, qraux, j, v, i - 1) + HouseVec(x, ldx, qraux, j, i) * v[i]

\* t = -ddot(n-j+1, x(j,j), 1, v(j), 1) / x(j,j);  daxpy(n-j+1, t, x(j,j), 1, v(j), 1)
ApplyH(x, ldx, n, qraux, j, v) ==
    IF qraux[j] = 0 THEN v
    ELSE LET t == 0 - (Ddot(x, ldx, qraux, j, v, n - 1) \div qraux[j])
         IN [i \in Idx(n) |-> IF i >= j THEN v[i] + t * HouseVec(x, ldx, qraux, j, i) ELSE v[i]]

\* columns j, j+1, ..., ju-1 in turn: trans(q)*v
RECURSIVE QtApply(_, _, _, _, _, _, _)
QtApply(x, ldx, n, qraux, v, j, ju) ==
    IF j >= ju THEN v
    ELSE QtApply(x, ldx, n, qraux, ApplyH(x, ldx, n, qraux, j, v), j + 1, ju)

\* columns jj-1, jj-2, ..., 0 in turn: q*v
RECURSIVE QApply(_, _, _, _, _, _)
QApply(x, ldx, n, qraux, v, jj) ==
    IF jj <= 0 THEN v
    ELSE QApply(x, ldx, n, qraux, ApplyH(x, ldx, n, qraux, jj - 1, v), jj - 1)

\* dqrsl(x, ldx, n, k, qraux, y, qy, qty, b, rsd, xb, job, info) for the jobs
\* that ask for rsd and/or xb, with rank >= 1 and n >= 2 (so ju >= 1); cr and
\* cxb tell which outputs are stored.  The status info is an output of the
\* routine: the callers draw it from QrStatus
Dqrsl(x, ldx, n, rank, qraux, y, job) ==
    LET ju == Min(rank, n - 1)
        cr == ((job % 100) \div 10) # 0
        cxb == (job % 10) # 0
        qtyv == QtApply(x, ldx, n, qraux, y, 0, ju)
        rsd0 == [i \in Idx(n) |-> IF i < rank THEN 0 ELSE qtyv[i]]
        xb0 == [i \in Idx(n) |-> IF i < rank THEN qtyv[i] ELSE 0]
    IN [qty |-> qtyv, cr |-> cr, cxb |-> cxb,
        rsd |-> QApply(x, ldx, n, qraux, rsd0, ju),
        xb |-> QApply(x, ldx, n, qraux, xb0, ju)]

\* ------------------------------------------------------------- dgesdd
\* singular values of the nrow x ncol matrix a, in descending order
SingularValues(a, nrow, ncol) ==
    [s \in Idx(Min(nrow, ncol)) |-> [sv |-> s, of |-> a]]

\* the product ev1 * ev1 of a singular value with itself
Sq(s) == [squareOf |-> s]

\* ------------------------------------------------------------- inputs
Column(buf, c) == [i \in Idx(nr) |-> buf[i + c * nr]]

\* the responses tried: nr x nc, rows pairwise different
ResponseOf(s) ==
    [idx \in Idx(nr * nc) |->
        LET i == idx % nr
            j == idx \div nr
        IN (((i + 1) * (s + j) + i * i) % 7) - 3]
Responses == {ResponseOf(s) : s \in 1 .. MaxSeed}

\* 1-based permutation rows: identity, rotation by one, reversal
PermRows ==
    [n \in Idx(3) |->
        [i \in Idx(nr) |->
            IF n = 0 THEN i + 1
            ELSE IF n = 1 THEN ((i + 1) % nr) + 1
            ELSE nr - i]]
\* the tables tried: nperm consecutive rows of the cycle identity, rotation,
\* reversal, identity, ..., from each starting point
PermTables ==
    {[idx \in Idx(nperm * nr) |-> PermRows[(s + (idx % nperm)) % 3][idx \div nperm]] :
        s \in Idx(3)}

\* a QR object (qr, rank, qraux) whose Householder reflections are exact on
\* integers: "swap" exchanges rows j and j+1, "neg" negates row j, "mixed"
\* alternates the two; the upper triangle (R) holds 9, which dqrsl never reads
\* for these jobs
Factorization(kind, rank) ==
    LET isSwap(j) == kind = "swap" \/ (kind = "mixed" /\ j % 2 = 0)
    IN [qr |-> [idx \in Idx(nr * rank) |->
                   LET i == idx % nr
                       j == idx \div nr
                   IN IF i <= j THEN 9
                      ELSE IF i = j + 1 /\ isSwap(j) THEN 0 - 1 ELSE 0],
        rank |-> rank,
        qraux |-> [j \in Idx(rank) |-> IF isSwap(j) THEN 1 ELSE 2]]
DesignQRs == {Factorization(kind, rank) : kind \in {"swap", "mixed"}, rank \in 1 .. (nr - 1)}
PartialQRs == {Factorization("neg", 1)}
NoQR == [qr |-> <<>>, rank |-> 0, qraux |-> <<>>]

\* matrices handed to getEV on its own: (nrow, ncol) and the entries
EVDims == {<<1, 1>>, <<1, 2>>, <<2, 1>>, <<2, 2>>}
EVInputs ==
    UNION {{[x |-> x, nrow |-> d[1], ncol |-> d[2], isDB |-> db] :
                x \in [Idx(IF db = 1 THEN d[1] * d[1] ELSE d[1] * d[2]) -> (0 - 1) .. MaxEVal]} :
           d \in EVDims, db \in {0, 1}}

\* ------------------------------------------------------------- state
VARIABLES
    E, perms, QR, QZ, FIRST, PARTIAL,
    pc, k, col, rans, rY, iperm, fitted, resid, qty, qrkind, info,
    xwork, sigma, svd_info, ev1, errcode, returned,
    junk, written, fresh,
    evarg, evret

vars == <<E, perms, QR, QZ, FIRST, PARTIAL,
          pc, k, col, rans, rY, iperm, fitted, resid, qty, qrkind, info,
          xwork, sigma, svd_info, ev1, errcode, returned,
          junk, written, fresh, evarg, evret>>

caller == <<E, perms, QR, QZ, FIRST, PARTIAL, junk>>
svdvars == <<xwork, sigma, svd_info, ev1, errcode>>
evvars == <<evarg, evret>>

NoFresh == [rY |-> {}, fitted |-> {}, resid |-> {}, qty |-> {}]
ColIdx(c) == {i + c * nr : i \in Idx(nr)}

\* ------------------------------------------------------------- do_getF
\* the state when the permutation loop is about to be prepared: ans allocated,
\* Y and dperms duplicated from E and perms, fitted, resid and qty allocated
Init ==
    /\ E \in Responses
    /\ perms \in PermTables
    /\ QR \in DesignQRs
    /\ FIRST \in {0, 1}
    /\ PARTIAL \in {0, 1}
    /\ QZ \in IF PARTIAL # 0 THEN PartialQRs ELSE {NoQR}
    /\ junk \in JunkVals
    /\ pc = "tozero"
    /\ k = 0
    /\ col = 0
    /\ rans = [idx \in Idx(2 * nperm) |-> junk]
    /\ rY = E
    /\ iperm = perms
    /\ fitted = [idx \in Idx(nr * nc) |-> junk]
    /\ resid = [idx \in Idx(nr * nc) |-> junk]
    /\ qty = [idx \in Idx(nr) |-> junk]
    /\ qrkind = junk
    /\ info = junk
    /\ xwork = <<>>
    /\ sigma = <<>>
    /\ svd_info = 0
    /\ ev1 = junk
    /\ errcode = 0
    /\ returned = FALSE
    /\ written = {}
    /\ fresh = NoFresh
    /\ evarg = [x |-> <<>>, nrow |-> 0, ncol |-> 0, isDB |-> 0]
    /\ evret = <<>>

\* variant: the conversion works on the caller's table (no duplicate)
ToZeroBaseInPlace ==
    /\ pc = "tozero"
    /\ perms' = [idx \in Idx(nperm * nr) |-> perms[idx] - 1]
    /\ iperm' = perms'
    /\ k' = 0
    /\ pc' = IF 0 < nperm THEN "permute" ELSE "return"
    /\ UNCHANGED <<E, QR, QZ, FIRST, PARTIAL, junk, col, rans, rY, fitted, resid, qty,
                   qrkind, info, svdvars, returned, written, fresh, evvars>>

\* for(i = 0; i < nperm * nr; i++) iperm[i]--;
ToZeroBase ==
    /\ pc = "tozero"
    /\ iperm' = [idx \in Idx(nperm * nr) |-> iperm[idx] - 1]
    /\ k' = 0
    /\ pc' = IF 0 < nperm THEN "permute" ELSE "return"
    /\ UNCHANGED <<caller, col, rans, rY, fitted, resid, qty, qrkind, info,
                   svdvars, returned, written, fresh, evvars>>

\* variant: every row of the buffer takes the response row of the first index
PermutedYFirstRow(src, ip, kk) ==
    [idx \in Idx(nr * nc) |-> src[ip[kk] + nr * (idx \div nr)]]

\* variant: the permutation table is read row by row (ip[kk * nr + i])
PermutedYRowMajor(src, ip, kk) ==
    [idx \in Idx(nr * nc) |-> src[ip[kk * nr + (idx % nr)] + nr * (idx \div nr)]]

\* rY[i + nr * j] = REAL(E)[ki + nr * j] with ki = iperm[k + nperm * i]
PermutedY(src, ip, kk) ==
    [idx \in Idx(nr * nc) |->
        LET i == idx % nr
            j == idx \div nr
        IN src[ip[kk + nperm * i] + nr * j]]

\* variant: the rows are taken from the working buffer instead of E
PermuteCarried ==
    /\ pc = "permute"
    /\ rY' = [idx \in Idx(nr * nc) |-> rY[iperm[k + nperm * (idx % nr)] + nr * (idx \div nr)]]
    /\ fresh' = [NoFresh EXCEPT !.rY = Idx(nr * nc)]
    /\ pc' = "permuted"
    /\ UNCHANGED <<caller, k, col, rans, iperm, fitted, resid, qty, qrkind, info,
                   svdvars, returned, written, evvars>>

Permute ==
    /\ pc = "permute"
    /\ rY' = PermutedY(E, iperm, k)
    /\ fresh' = [NoFresh EXCEPT !.rY = Idx(nr * nc)]
    /\ pc' = "permuted"
    /\ UNCHANGED <<caller, k, col, rans, iperm, fitted, resid, qty, qrkind, info,
                   svdvars, returned, written, evvars>>

\* if (PARTIAL) { qrkind = RESID; for(i = 0; ...
PartialBegin ==
    /\ pc = "permuted"
    /\ PARTIAL # 0
    /\ qrkind' = RESID
    /\ col' = 0
    /\ pc' = "partial"
    /\ UNCHANGED <<caller, k, rans, rY, iperm, fitted, resid, qty, info,
                   svdvars, returned, written, fresh, evvars>>

\* dqrsl(Zqr, &nr, &nr, &Zqrank, Zqraux, rY + i*nr, &dummy, qty, &dummy,
\*       rY + i*nr, &dummy, &qrkind, &info)
PartialCall ==
    /\ pc = "partial"
    /\ col < nc
    /\ \E st \in QrStatus :
        LET out == Dqrsl(QZ.qr, nr, nr, QZ.rank, QZ.qraux, Column(rY, col), qrkind)
        IN /\ qty' = out.qty
           /\ rY' = [idx \in Idx(nr * nc) |->
                        IF out.cr /\ idx \in ColIdx(col) THEN out.rsd[idx - col * nr]
                        ELSE rY[idx]]
           /\ info' = st
    /\ fresh' = [fresh EXCEPT !.qty = Idx(nr)]
    /\ col' = col + 1
    /\ UNCHANGED <<caller, pc, k, rans, iperm, fitted, resid, qrkind,
                   svdvars, returned, written, evvars>>

\* variant: fitted values and residuals are always requested
DesignKindAlwaysBoth(first, partial) == FIT + RESID

\* if (PARTIAL || FIRST) qrkind = FIT + RESID; else qrkind = FIT;
DesignKindOf(first, partial) ==
    IF partial # 0 \/ first # 0 THEN FIT + RESID ELSE FIT

DesignKind ==
    /\ \/ pc = "permuted" /\ PARTIAL = 0
       \/ pc = "partial" /\ col >= nc
    /\ qrkind' = DesignKindOf(FIRST, PARTIAL)
    /\ col' = 0
    /\ pc' = "design"
    /\ UNCHANGED <<caller, k, rans, rY, iperm, fitted, resid, qty, info,
                   svdvars, returned, written, fresh, evvars>>

\* dqrsl(qr, &nr, &nr, &qrank, qraux, rY + i*nr, &dummy, qty, &dummy,
\*       resid + i*nr, fitted + i*nr, &qrkind, &info)
DesignCall ==
    /\ pc = "design"
    /\ col < nc
    /\ \E st \in QrStatus :
        LET out == Dqrsl(QR.qr, nr, nr, QR.rank, QR.qraux, Column(rY, col), qrkind)
        IN /\ qty' = out.qty
           /\ resid' = [idx \in Idx(nr * nc) |->
                           IF out.cr /\ idx \in ColIdx(col) THEN out.rsd[idx - col * nr]
                           ELSE resid[idx]]
           /\ fitted' = [idx \in Idx(nr * nc) |->
                            IF out.cxb /\ idx \in ColIdx(col) THEN out.xb[idx - col * nr]
                            ELSE fitted[idx]]
           /\ fresh' = [fresh EXCEPT
                           !.qty = Idx(nr),
                           !.resid = IF out.cr THEN @ \cup ColIdx(col) ELSE @,
                           !.fitted = IF out.cxb THEN @ \cup ColIdx(col) ELSE @]
           /\ info' = st
    /\ col' = col + 1
    /\ UNCHANGED <<caller, pc, k, rans, rY, iperm, qrkind,
                   svdvars, returned, written, evvars>>

\* rans[k] = getEV(fitted, nr, nc, 0);
EvAll ==
    /\ pc = "design"
    /\ col >= nc
    /\ FIRST = 0
    /\ rans' = [rans EXCEPT ![k] = getEV(fitted, nr, nc, 0)]
    /\ written' = written \cup {k}
    /\ pc' = "resid"
    /\ UNCHANGED <<caller, k, col, rY, iperm, fitted, resid, qty, qrkind, info,
                   svdvars, returned, fresh, evvars>>

\* variant: the status of the work-array query is not looked at
SvdQueryUnchecked ==
    /\ pc = "design"
    /\ col >= nc
    /\ FIRST # 0
    /\ xwork' = fitted
    /\ sigma' = [s \in Idx(Min(nr, nc)) |-> junk]
    /\ \E st \in SvdStatus : svd_info' = st
    /\ pc' = "svd"
    /\ UNCHANGED <<caller, k, col, rans, rY, iperm, fitted, resid, qty, qrkind, info,
                   ev1, errcode, returned, written, fresh, evvars>>

\* ev1 = svdfirst(fitted, nr, nc): copy of the data, then the query of the
\* optimal work array; error("error %d from Lapack dgesdd", info)
SvdQuery ==
    /\ pc = "design"
    /\ col >= nc
    /\ FIRST # 0
    /\ xwork' = fitted
    /\ sigma' = [s \in Idx(Min(nr, nc)) |-> junk]
    /\ \E st \in SvdStatus :
        /\ svd_info' = st
        /\ pc' = IF st # 0 THEN "error" ELSE "svd"
        /\ errcode' = IF st # 0 THEN st ELSE errcode
    /\ UNCHANGED <<caller, k, col, rans, rY, iperm, fitted, resid, qty, qrkind, info,
                   ev1, returned, written, fresh, evvars>>

\* variant: the last singular value is returned
SigmaLast == Min(nr, nc) - 1

\* the index of sigma that svdfirst returns
SigmaReturned == 0

\* the decomposition itself; error("error %d from Lapack dgesdd, pos 2", info);
\* return sigma[0]; rans[k] = ev1 * ev1
SvdCall ==
    /\ pc = "svd"
    /\ \E st \in SvdStatus :
        /\ svd_info' = st
        /\ xwork' = [idx \in Idx(nr * nc) |-> junk]
        /\ sigma' = IF st = 0 THEN SingularValues(xwork, nr, nc) ELSE sigma
        /\ IF st # 0
           THEN /\ pc' = "error"
                /\ errcode' = st
                /\ UNCHANGED <<ev1, rans, written>>
           ELSE /\ pc' = "resid"
                /\ ev1' = sigma'[SigmaReturned]
                /\ rans' = [rans EXCEPT ![k] = Sq(ev1')]
                /\ written' = written \cup {k}
                /\ UNCHANGED errcode
    /\ UNCHANGED <<caller, k, col, rY, iperm, fitted, resid, qty, qrkind, info,
                   returned, fresh, evvars>>

\* variant: column 1 is filled in every mode
FillsResidualAlways(first, partial) == TRUE

\* if (PARTIAL || FIRST) rans[k + nperm] = getEV(resid, nr, nc, 0);  k++
FillsResidual(first, partial) == partial # 0 \/ first # 0

Resid ==
    /\ pc = "resid"
    /\ IF FillsResidual(FIRST, PARTIAL)
       THEN /\ rans' = [rans EXCEPT ![k + nperm] = getEV(resid, nr, nc, 0)]
            /\ written' = written \cup {k + nperm}
       ELSE UNCHANGED <<rans, written>>
    /\ k' = k + 1
    /\ pc' = IF k + 1 < nperm THEN "permute" ELSE "return"
    /\ UNCHANGED <<caller, col, rY, iperm, fitted, resid, qty, qrkind, info,
                   svdvars, returned, fresh, evvars>>

\* UNPROTECT(3); return ans;
Return ==
    /\ pc = "return"
    /\ returned' = TRUE
    /\ pc' = "done"
    /\ UNCHANGED <<caller, k, col, rans, rY, iperm, fitted, resid, qty, qrkind, info,
                   svdvars, written, fresh, evvars>>

Next ==
    \/ ToZeroBase
    \/ Permute
    \/ PartialBegin
    \/ PartialCall
    \/ DesignKind
    \/ DesignCall
    \/ EvAll
    \/ SvdQuery
    \/ SvdCall
    \/ Resid
    \/ Return

Spec == Init /\ [][Next]_vars

\* ------------------------------------------------------------- getEV alone
\* a caller holding a matrix and about to call getEV(x, nrow, ncol, isDB)
InitEV ==
    /\ evarg \in EVInputs
    /\ evret = <<>>
    /\ pc = "getEV"
    /\ E = <<>> /\ perms = <<>> /\ QR = NoQR /\ QZ = NoQR
    /\ FIRST = 0 /\ PARTIAL = 0 /\ junk = 0
    /\ k = 0 /\ col = 0 /\ rans = <<>> /\ rY = <<>> /\ iperm = <<>>
    /\ fitted = <<>> /\ resid = <<>> /\ qty = <<>> /\ qrkind = 0 /\ info = 0
    /\ xwork = <<>> /\ sigma = <<>> /\ svd_info = 0 /\ ev1 = 0 /\ errcode = 0
    /\ returned = FALSE /\ written = {} /\ fresh = NoFresh

CallGetEV ==
    /\ pc = "getEV"
    /\ evret' = <<getEV(evarg.x, evarg.nrow, evarg.ncol, evarg.isDB)>>
    /\ pc' = "getEV_done"
    /\ UNCHANGED <<caller, k, col, rans, rY, iperm, fitted, resid, qty, qrkind, info,
                   svdvars, returned, written, fresh, evarg>>

NextEV == CallGetEV

SpecEV == InitEV /\ [][NextEV]_vars

\* ------------------------------------------------------------- properties
\* matrices as (row, column) entries of a column-major buffer
Entry(buf, nrow, i, j) == buf[i + nrow * j]

RECURSIVE SumSqRow(_, _, _, _)
SumSqRow(buf, nrow, i, ncols) ==
    IF ncols = 0 THEN 0
    ELSE SumSqRow(buf, nrow, i, ncols - 1)
            + Entry(buf, nrow, i, ncols - 1) * Entry(buf, nrow, i, ncols - 1)

RECURSIVE SumSqRows(_, _, _, _)
SumSqRows(buf, nrow, nrows, ncols) ==
    IF nrows = 0 THEN 0
    ELSE SumSqRows(buf, nrow, nrows - 1, ncols) + SumSqRow(buf, nrow, nrows - 1, ncols)

\* sum of the squares of all entries of an nrow x ncol matrix
SumSqMatrix(buf, nrow, ncol) == SumSqRows(buf, nrow, nrow, ncol)

RECURSIVE SumSqDiag(_, _, _)
SumSqDiag(buf, nrow, i) ==
    IF i = 0 THEN 0
    ELSE SumSqDiag(buf, nrow, i - 1)
            + Entry(buf, nrow, i - 1, i - 1) * Entry(buf, nrow, i - 1, i - 1)

Rows == Idx(nperm)
AllCells == Idx(nr * nc)
HasPartial == PARTIAL # 0
UseFirstOnly == FIRST # 0

\* what a job code asks dqrsl for
RequestsFitted(job) == job % 10 # 0
RequestsResiduals(job) == (job \div 10) % 10 # 0

\* row r of the caller's table, as stored (1-based)
PermRowOf(r) == [i \in Idx(nr) |-> perms[r + nperm * i]]

\* the response with its rows taken in the order of a 1-based row
Permuted(row) == [idx \in AllCells |-> Entry(E, nr, row[idx % nr] - 1, idx \div nr)]

\* residuals and fitted values of every column of a matrix under a QR object
ResidualsUnder(fac, m) ==
    [idx \in AllCells |->
        Dqrsl(fac.qr, nr, nr, fac.rank, fac.qraux, Column(m, idx \div nr), RESID).rsd[idx % nr]]
FittedUnder(fac, m) ==
    [idx \in AllCells |->
        Dqrsl(fac.qr, nr, nr, fac.rank, fac.qraux, Column(m, idx \div nr), FIT).xb[idx % nr]]

\* what the design projection is given, fits and leaves for a response m
ProjectionInput(m) == IF HasPartial THEN ResidualsUnder(QZ, m) ELSE m
FittedFor(m) == FittedUnder(QR, ProjectionInput(m))
ResidualFor(m) == ResidualsUnder(QR, ProjectionInput(m))
LargestSingularValue(m) == SingularValues(m, nr, nc)[0]
ExplainedFor(m) ==
    IF UseFirstOnly THEN Sq(LargestSingularValue(FittedFor(m)))
    ELSE SumSqMatrix(FittedFor(m), nr, nc)
ResidualVarianceFor(m) == SumSqMatrix(ResidualFor(m), nr, nc)

\* C1: column 1 of result row r is written iff hasPartial or useFirstOnly is
\* set (and row r has been processed); when written it is the sum of squares of
\* the whole residual buffer of that iteration; when neither flag is set, at
\* return every entry of column 1 still holds its initial content and every
\* entry of column 0 has been written.
C1_ResidualColumn ==
    /\ \A r \in Rows :
          (r + nperm \in written) <=> ((HasPartial \/ UseFirstOnly) /\ r < k)
    /\ (pc \in {"permute", "return", "done"} /\ k >= 1 /\ (HasPartial \/ UseFirstOnly))
          => rans[(k - 1) + nperm] = SumSqMatrix(resid, nr, nc)
    /\ (pc = "done" /\ ~HasPartial /\ ~UseFirstOnly)
          => \A r \in Rows : rans[r + nperm] = junk /\ r \in written

C1_Witness ==
    /\ pc = "done"
    /\ UseFirstOnly /\ ~HasPartial
    /\ rans[nperm] # junk /\ rans[nperm] # rans[1 + nperm]

\* C2: the caller's response matrix and 1-based permutation table are never
\* changed, and after the conversion every index of the private table is the
\* caller's index minus one.
C2_CallerObjectsUntouched ==
    /\ [](pc \in {"permute", "permuted", "partial", "design", "svd", "resid", "return", "done", "error"}
            => iperm = [idx \in Idx(nperm * nr) |-> perms[idx] - 1])
    /\ [][E' = E /\ perms' = perms]_vars

C2_Witness ==
    /\ pc = "done"
    /\ HasPartial
    /\ rY # E
    /\ iperm # perms

\* some dqrsl call has been made, so info holds a reported status
QrCalled == k > 0 \/ fresh.qty # {}

\* C3: a non-zero status of any dqrsl call aborts the batch: the run is in the
\* error state and no result table is returned.
C3_QRFailureFatal ==
    (QrCalled /\ info # 0) => (pc = "error" /\ ~returned)

\* C4: a non-zero status of dgesdd, in the query or in the decomposition, ends
\* the run in the error state with that status as the error code; no value is
\* returned for row k, no result table is returned, and nothing further runs.
C4_SvdFailureFatal ==
    /\ (svd_info # 0) =>
          /\ pc = "error"
          /\ errcode = svd_info
          /\ ~returned
          /\ \A r \in Rows : r >= k => r \notin written /\ r + nperm \notin written
          /\ ~ENABLED Next
    /\ (pc = "error") => svd_info # 0

C4_Witness ==
    /\ pc = "error"
    /\ k = 1
    /\ 0 \in written
    /\ svd_info = 0 - 4

\* C5: between iterations and at return, every result entry written so far is
\* the value determined by its own permutation row, the response, the
\* factorizations and the flags alone (not by the other rows, their order or
\* what the buffers held), and every buffer entry about to be read was written
\* in the current iteration.
C5_NoCarriedState ==
    /\ (pc \in {"permute", "return", "done"}) =>
          \A r \in Rows :
              /\ r \in written => rans[r] = ExplainedFor(Permuted(PermRowOf(r)))
              /\ r + nperm \in written
                    => rans[r + nperm] = ResidualVarianceFor(Permuted(PermRowOf(r)))
    /\ (pc \in {"partial", "design"} /\ col < nc) => ColIdx(col) \subseteq fresh.rY
    /\ (pc = "design" /\ col >= nc) => fresh.fitted = AllCells
    /\ (pc = "svd") => xwork = fitted /\ fresh.fitted = AllCells
    /\ (pc = "resid" /\ (HasPartial \/ UseFirstOnly)) => fresh.resid = AllCells

C5_Witness ==
    /\ pc = "done"
    /\ HasPartial /\ ~UseFirstOnly
    /\ junk # 0
    /\ PermRowOf(0) # PermRowOf(1)
    /\ rans[0] # rans[1]

\* C6 as claimed: with neither flag set, column 0 plus column 1 is the same for
\* every row and equals the total sum of squares of the response.
C6_SumOfColumnsInvariant ==
    (pc = "done" /\ ~HasPartial /\ ~UseFirstOnly) =>
        \A r \in Rows : rans[r] + rans[r + nperm] = SumSqMatrix(E, nr, nc)

\* C6 amended: with neither flag set, column 0 of the row plus the sum of
\* squares of what the design projection leaves (permuted response minus fitted
\* values) equals the total sum of squares of the response, for every row.
C6_FittedPlusResidualIsTotal ==
    (pc = "resid" /\ ~HasPartial /\ ~UseFirstOnly) =>
        rans[k] + SumSqMatrix([idx \in AllCells |-> rY[idx] - fitted[idx]], nr, nc)
            = SumSqMatrix(E, nr, nc)

C6_Witness ==
    /\ pc = "resid"
    /\ ~HasPartial /\ ~UseFirstOnly
    /\ k = 1
    /\ rans[0] # rans[1]
    /\ rans[1] # 0
    /\ rans[1] # SumSqMatrix(E, nr, nc)

\* the matrix [[1,2],[3,4]], column-major
C7_Matrix1234 == (0 :> 1) @@ (1 :> 3) @@ (2 :> 2) @@ (3 :> 4)

\* C7: getEV returns the sum of squares of all nrow*ncol entries when isDB is 0
\* and of the nrow diagonal entries when isDB is 1 (30 and 17 on [[1,2],[3,4]]),
\* and leaves its argument alone.
C7_getEV ==
    /\ [](pc = "getEV_done" =>
            /\ evret[1] = IF evarg.isDB = 0
                          THEN SumSqMatrix(evarg.x, evarg.nrow, evarg.ncol)
                          ELSE SumSqDiag(evarg.x, evarg.nrow, evarg.nrow)
            /\ (evarg.x = C7_Matrix1234 /\ evarg.nrow = 2 /\ evarg.ncol = 2)
                  => evret[1] = IF evarg.isDB = 0 THEN 30 ELSE 17)
    /\ [][evarg' = evarg]_vars

C7_Witness ==
    /\ pc = "getEV_done"
    /\ evarg.x = C7_Matrix1234 /\ evarg.nrow = 2 /\ evarg.ncol = 2
    /\ evarg.isDB = 1
    /\ evret[1] = 17

\* C8 as claimed: the design projection is asked for residuals only when
\* neither flag is set, and for fitted values and residuals otherwise.
C8_ResidualsOnlyWhenNoFlag ==
    (pc = "design") =>
        IF ~HasPartial /\ ~UseFirstOnly
        THEN RequestsResiduals(qrkind) /\ ~RequestsFitted(qrkind)
        ELSE RequestsResiduals(qrkind) /\ RequestsFitted(qrkind)

\* C8 amended: the design projection is asked for fitted values only when
\* neither flag is set (the residual buffer is then left as it was), and for
\* fitted values and residuals otherwise.
C8_FittedOnlyWhenNoFlag ==
    (pc = "design") =>
        IF ~HasPartial /\ ~UseFirstOnly
        THEN /\ RequestsFitted(qrkind) /\ ~RequestsResiduals(qrkind)
             /\ fresh.resid = {}
             /\ \A idx \in AllCells : resid[idx] = junk
        ELSE /\ RequestsResiduals(qrkind) /\ RequestsFitted(qrkind)
             /\ fresh.resid = fresh.fitted

C8_Witness ==
    /\ pc = "design"
    /\ col = nc
    /\ k = 1
    /\ ~HasPartial /\ ~UseFirstOnly
    /\ fresh.fitted = AllCells

\* the 1-based identity permutation
IdentityRow == [i \in Idx(nr) |-> i + 1]

\* C9: when the projections of iteration k start, entry (i,j) of the permuted
\* buffer is entry (permutation[k][i] - 1, j) of the response, also when the
\* previous iteration residualized the buffer in place; and the
\* explained-variance entry stored for an identity row is that of the response
\* itself.
C9_PermutedBuffer ==
    /\ (pc = "permuted") =>
          \A i \in Idx(nr), j \in Idx(nc) :
              Entry(rY, nr, i, j) = Entry(E, nr, perms[k + nperm * i] - 1, j)
    /\ (pc = "resid" /\ PermRowOf(k) = IdentityRow) => rans[k] = ExplainedFor(E)

C9_Witness ==
    /\ pc = "permuted"
    /\ HasPartial
    /\ k = 1
    /\ PermRowOf(0) # IdentityRow /\ PermRowOf(1) = IdentityRow
    /\ rY = E

\* C10: once column 0 of row k is stored it is the squared largest singular
\* value of the fitted buffer when useFirstOnly is set and the sum of squares of
\* the fitted buffer otherwise, the fitted buffer being the design projection
\* of the permuted (and, with hasPartial, residualized) response.
C10_ExplainedVariance ==
    (pc = "resid") =>
        /\ fitted = FittedFor(Permuted(PermRowOf(k)))
        /\ rans[k] = IF UseFirstOnly THEN Sq(LargestSingularValue(fitted))
                     ELSE SumSqMatrix(fitted, nr, nc)

C10_Witness ==
    /\ pc = "resid"
    /\ UseFirstOnly /\ HasPartial
    /\ k = 1
    /\ rans[0] # rans[1]
====
